---- MODULE Spec2Model ----
(***************************************************************************)
(* Model of src/server.py: the API-key check, the in-memory TTL cache, the *)
(* upstream relay and the seven Flask routes built on them.                *)
(*                                                                         *)
(* Python strings that the code inspects (credentials, the Authorization   *)
(* header, the e / market_pair parameters) are sequences of one-character  *)
(* strings, so that strip(), lower(), upper(), startswith() and replace()  *)
(* are computed.  Reason codes and JSON field values the code only copies  *)
(* are TLA+ strings.                                                       *)
(***************************************************************************)
EXTENDS Integers, Sequences, FiniteSets, TLC

VARIABLES
    EXPECTED_API_KEY,   \* os.getenv("QuantConnect_API")
    UP_KEY,             \* os.getenv("UPSTREAM_API_KEY", "")
    UP_KEYNAM,          \* os.getenv("UPSTREAM_API_KEY_NAME", "api_key")
    UP_AUTH,            \* os.getenv("UPSTREAM_AUTH_MODE", "query")
    OPENAI_API_KEY,     \* os.getenv("OPENAI_API_KEY", "")
    _cache,             \* key -> <<timestamp, data>>
    now,                \* the value time.time() returns
    last,               \* the latest request served: what came in, went out, came back
    threads             \* the threads inside get_coinlist: each one's line and locals

config == <<EXPECTED_API_KEY, UP_KEY, UP_KEYNAM, UP_AUTH, OPENAI_API_KEY>>
vars == <<config, _cache, now, last, threads>>

----------------------------------------------------------------------------
(* Bounds of the model *)

MaxTime == 43       \* the clock stops advancing here
MaxPayload == 2     \* distinct payloads the upstream can answer with

----------------------------------------------------------------------------
(* Python values *)

\* None where a string is expected (request.args.get, os.getenv)
None == <<"None">>
\* None where a response or a cached value is expected
NoneValue == [py_none |-> TRUE]

\* bool(s) of an optional string: None and "" are falsy
Truthy(s) == s # None /\ s # <<>>

\* dict.get(k, default)
get(d, k, default) == IF k \in DOMAIN d THEN d[k] ELSE default

lowerChar(c) ==
    CASE c = "B" -> "b" [] c = "K" -> "k" [] c = "X" -> "x" [] c = "G" -> "g"
      [] OTHER -> c

upperChar(c) ==
    CASE c = "b" -> "B" [] c = "k" -> "K" [] c = "x" -> "X" [] c = "g" -> "G"
      [] OTHER -> c

lower(s) == [i \in DOMAIN s |-> lowerChar(s[i])]
upper(s) == [i \in DOMAIN s |-> upperChar(s[i])]

RECURSIVE lstrip(_)
lstrip(s) == IF s # <<>> /\ Head(s) = " " THEN lstrip(Tail(s)) ELSE s

RECURSIVE rstrip(_)
rstrip(s) ==
    IF s # <<>> /\ s[Len(s)] = " " THEN rstrip(SubSeq(s, 1, Len(s) - 1)) ELSE s

\* strip left out: the text as it was sent
strip_nothing(s) == s

strip(s) == rstrip(lstrip(s))

startswith(s, p) == Len(s) >= Len(p) /\ SubSeq(s, 1, Len(p)) = p

\* s.replace(old, new, 1): the first occurrence only
replace1(s, old, new) ==
    LET at == {i \in 1..(Len(s) - Len(old) + 1) : SubSeq(s, i, i + Len(old) - 1) = old}
    IN  IF at = {} THEN s
        ELSE LET i == CHOOSE j \in at : \A k \in at : j <= k
             IN  SubSeq(s, 1, i - 1) \o new \o SubSeq(s, i + Len(old), Len(s))

----------------------------------------------------------------------------
(* Flask values.  A view function returns either a Response (jsonify) or a *)
(* (Response, status) tuple; Flask turns both into the HTTP response.      *)

jsonify(data) == [type |-> "Response", status |-> 200, body |-> data]

WithStatus(data, code) == [type |-> "tuple", status |-> code, body |-> data]

\* What Flask sends when a view function raises: no JSON envelope
InternalServerError ==
    [type |-> "Response", status |-> 500, body |-> [html |-> "Internal Server Error"]]

\* A JSON body that is not an object (a list) is marked by this field
IsDict(j) == "json_list" \notin DOMAIN j

----------------------------------------------------------------------------
(* Securite API *)

Bearer == <<"B", "e", "a", "r", "e", "r", " ">>

_auth_fail(msg, code) == WithStatus([success |-> "false", error |-> msg], code)

\* SentKey reading the Authorization header first, the query parameter only
\* when the header gives no bearer credential
SentKey_header_first(request) ==
    LET auth == get(request.headers, "Authorization", <<>>)
    IN  IF startswith(auth, Bearer) /\ Truthy(replace1(auth, Bearer, <<>>))
        THEN replace1(auth, Bearer, <<>>)
        ELSE get(request.args, "api_key", None)

\* The credential the check compares: the query parameter, else the header
SentKey(request) ==
    LET sent == get(request.args, "api_key", None)
    IN  IF ~Truthy(sent)
        THEN LET auth == get(request.headers, "Authorization", <<>>)
             IN  IF startswith(auth, Bearer) THEN replace1(auth, Bearer, <<>>)
                 ELSE sent
        ELSE sent

\* Mutant: the comparison with the expected key is left out
require_api_key_any_key(expected, request) ==
    IF ~Truthy(expected) THEN _auth_fail("server_missing_api_key_env", 500)
    ELSE IF ~Truthy(SentKey(request)) THEN _auth_fail("api_key is missing", 401)
    ELSE NoneValue

\* Mutant: a missing key is reported with the reason of a wrong one
require_api_key_one_reason(expected, request) ==
    IF ~Truthy(expected) THEN _auth_fail("server_missing_api_key_env", 500)
    ELSE IF ~Truthy(SentKey(request)) \/ SentKey(request) # expected
         THEN _auth_fail("api_key is missing or invalid", 401)
         ELSE NoneValue

\* Mutant: the check that an expected key is configured is left out
require_api_key_no_env_check(expected, request) ==
    LET sent == SentKey(request)
    IN  IF ~Truthy(sent) THEN _auth_fail("api_key is missing", 401)
        ELSE IF sent # expected
             THEN _auth_fail("api_key is missing or invalid", 401)
             ELSE NoneValue

require_api_key(expected, request) ==
    IF ~Truthy(expected) THEN _auth_fail("server_missing_api_key_env", 500)
    ELSE LET sent == SentKey(request)
         IN  IF ~Truthy(sent) THEN _auth_fail("api_key is missing", 401)
             ELSE IF sent # expected
                  THEN _auth_fail("api_key is missing or invalid", 401)
                  ELSE NoneValue

----------------------------------------------------------------------------
(* Mini cache *)

CACHE_TTL_SECONDS == 30

\* Mutant: an entry never expires
cache_get_never_expires(c, key, t) ==
    IF key \notin DOMAIN c THEN [cache |-> c, value |-> NoneValue]
    ELSE [cache |-> c, value |-> c[key][2]]

\* Mutant: an entry expires when its age reaches the TTL
cache_get_expires_at_ttl(c, key, t) ==
    IF key \notin DOMAIN c THEN [cache |-> c, value |-> NoneValue]
    ELSE IF t - c[key][1] >= CACHE_TTL_SECONDS
         THEN [cache |-> [k \in DOMAIN c \ {key} |-> c[k]], value |-> NoneValue]
         ELSE [cache |-> c, value |-> c[key][2]]

\* cache_get with sliding expiration: a hit stamps the entry with the time of
\* the read
cache_get_sliding(c, key, t) ==
    IF key \notin DOMAIN c THEN [cache |-> c, value |-> NoneValue]
    ELSE IF t - c[key][1] > CACHE_TTL_SECONDS
         THEN [cache |-> [k \in DOMAIN c \ {key} |-> c[k]], value |-> NoneValue]
         ELSE [cache |-> [c EXCEPT ![key] = <<t, c[key][2]>>], value |-> c[key][2]]

\* cache_get at time t: the cache afterwards and the value returned
cache_get(c, key, t) ==
    IF key \notin DOMAIN c THEN [cache |-> c, value |-> NoneValue]
    ELSE LET ts == c[key][1]
             data == c[key][2]
         IN  IF t - ts > CACHE_TTL_SECONDS
             THEN [cache |-> [k \in DOMAIN c \ {key} |-> c[k]], value |-> NoneValue]
             ELSE [cache |-> c, value |-> data]

\* cache_put at time t: the cache afterwards
cache_put(c, key, data, t) ==
    [k \in DOMAIN c \cup {key} |-> IF k = key THEN <<t, data>> ELSE c[k]]

----------------------------------------------------------------------------
(* Config de l'amont: the relay.  The upstream's answer to the one GET is  *)
(* an input: [kind |-> "ok", json |-> body], an HTTP error with its status *)
(* code, or no answer at all (timeout, connection refused, invalid JSON).  *)

Str_query == <<"q", "u", "e", "r", "y">>
Str_bearer == <<"b", "e", "a", "r", "e", "r">>

\* Mutant: the upstream's status code is dropped
upstream_http_error_no_code(code) ==
    WithStatus([success |-> "false", error |-> "upstream_http_error"], 502)

\* except requests.HTTPError
upstream_http_error(code) ==
    WithStatus([success |-> "false", error |-> "upstream_http_" \o ToString(code)], 502)

\* except Exception
upstream_unreachable ==
    WithStatus([success |-> "false", error |-> "upstream_unreachable"], 502)

\* upstream_get without the check of UP_KEY: the request goes out with the
\* empty key
upstream_get_no_key_check(path, params, up) ==
    LET bearer == lower(UP_AUTH) = Str_bearer
        headers == IF bearer THEN [Authorization |-> Bearer \o UP_KEY]
                   ELSE <<>>
        q == IF bearer THEN params
             ELSE [k \in DOMAIN params \cup {UP_KEYNAM} |->
                       IF k = UP_KEYNAM THEN UP_KEY ELSE params[k]]
        call == [to |-> "upstream", path |-> path, params |-> q,
                 headers |-> headers, answer |-> up, caller |-> params]
        rv == CASE up.kind = "ok" -> jsonify(up.json)
                 [] up.kind = "http_error" -> upstream_http_error(up.code)
                 [] OTHER -> upstream_unreachable
    IN  [rv |-> rv, calls |-> <<call>>]

\* upstream_get with a second attempt after an answer that is not a success
upstream_get_retry(path, params, up) ==
    IF ~Truthy(UP_KEY)
    THEN [rv |-> _auth_fail("upstream_key_missing", 500), calls |-> <<>>]
    ELSE LET bearer == lower(UP_AUTH) = Str_bearer
             headers == IF bearer THEN [Authorization |-> Bearer \o UP_KEY]
                        ELSE <<>>
             q == IF bearer THEN params
                  ELSE [k \in DOMAIN params \cup {UP_KEYNAM} |->
                            IF k = UP_KEYNAM THEN UP_KEY ELSE params[k]]
             call == [to |-> "upstream", path |-> path, params |-> q,
                      headers |-> headers, answer |-> up, caller |-> params]
             rv == CASE up.kind = "ok" -> jsonify(up.json)
                      [] up.kind = "http_error" -> upstream_http_error(up.code)
                      [] OTHER -> upstream_unreachable
         IN  [rv |-> rv,
              calls |-> IF up.kind = "ok" THEN <<call>> ELSE <<call, call>>]

\* upstream_get with q = params in place of q = dict(params): the key is
\* written into the caller's dict
upstream_get_in_place(path, params, up) ==
    IF ~Truthy(UP_KEY)
    THEN [rv |-> _auth_fail("upstream_key_missing", 500), calls |-> <<>>]
    ELSE LET bearer == lower(UP_AUTH) = Str_bearer
             headers == IF bearer THEN [Authorization |-> Bearer \o UP_KEY]
                        ELSE <<>>
             q == IF bearer THEN params
                  ELSE [k \in DOMAIN params \cup {UP_KEYNAM} |->
                            IF k = UP_KEYNAM THEN UP_KEY ELSE params[k]]
             call == [to |-> "upstream", path |-> path, params |-> q,
                      headers |-> headers, answer |-> up, caller |-> q]
             rv == CASE up.kind = "ok" -> jsonify(up.json)
                      [] up.kind = "http_error" -> upstream_http_error(up.code)
                      [] OTHER -> upstream_unreachable
         IN  [rv |-> rv, calls |-> <<call>>]

\* upstream_get: the value returned and the outbound calls issued (none or
\* one); a call records what went out (params, headers), what came back
\* (answer) and the caller's dict as the call left it (caller)
upstream_get(path, params, up) ==
    IF ~Truthy(UP_KEY)
    THEN [rv |-> _auth_fail("upstream_key_missing", 500), calls |-> <<>>]
    ELSE LET bearer == lower(UP_AUTH) = Str_bearer
             headers == IF bearer THEN [Authorization |-> Bearer \o UP_KEY]
                        ELSE <<>>
             q == IF bearer THEN params
                  ELSE [k \in DOMAIN params \cup {UP_KEYNAM} |->
                            IF k = UP_KEYNAM THEN UP_KEY ELSE params[k]]
             call == [to |-> "upstream", path |-> path, params |-> q,
                      headers |-> headers, answer |-> up, caller |-> params]
             rv == CASE up.kind = "ok" -> jsonify(up.json)
                      [] up.kind = "http_error" -> upstream_http_error(up.code)
                      [] OTHER -> upstream_unreachable
         IN  [rv |-> rv, calls |-> <<call>>]

----------------------------------------------------------------------------
(* Config OpenAI.  The provider's answer to the one POST is an input too.  *)

\* openai_complete: the dict returned and the outbound calls issued
openai_complete(prompt, ai) ==
    IF ~Truthy(OPENAI_API_KEY)
    THEN [ret |-> [ok |-> FALSE, error |-> "openai_key_missing"], calls |-> <<>>]
    ELSE LET call == [to |-> "openai", path |-> "/chat/completions",
                      params |-> prompt,
                      headers |-> [Authorization |-> Bearer \o OPENAI_API_KEY],
                      answer |-> ai]
             ret == CASE ai.kind = "ok" -> [ok |-> TRUE, error |-> "", text |-> ai.json]
                      [] ai.kind = "http_error" ->
                            [ok |-> FALSE, error |-> "openai_http_" \o ToString(ai.code)]
                      [] OTHER -> [ok |-> FALSE, error |-> "openai_unreachable"]
         IN  [ret |-> ret, calls |-> <<call>>]

----------------------------------------------------------------------------
(* ENDPOINTS.  Each view function is one action: it serves one request     *)
(* from start to finish.  Where the code calls out, the answer is drawn    *)
(* from the answers the environment can give (Ups for the upstream, Ais    *)
(* for the text provider) and the call takes one of Lats seconds.          *)

\* bool(v) of a cached value: None and {} are falsy
TruthyValue(v) == v # NoneValue /\ DOMAIN v # {}

\* (request.args.get(name) or "")
ArgOrEmpty(request, name) ==
    LET v == get(request.args, name, None) IN IF Truthy(v) THEN v ELSE <<>>

ParamError(msg) == WithStatus([success |-> "false", error |-> msg], 400)

\* The cache key /coinlist/ derives from a request
KeyOf(request) == <<"coinlist:">> \o lower(strip(ArgOrEmpty(request, "e")))

\* _cache.get(key) as a sequence: <<timestamp, data>>, or empty for None
EntryOf(c, key) == IF key \in DOMAIN c THEN c[key] ELSE <<>>

NoLookup == [entry |-> <<>>, value |-> NoneValue]

\* The request that arrived at time `now` is answered with the return value
\* rv at time t, having issued `calls` and left the cache as cache2; `looked`
\* is the entry its cache_get found and the value cache_get returned
Respond(route, request, rv, looked, calls, cache2, t) ==
    /\ t <= MaxTime
    /\ last' = [route |-> route, request |-> request, status |-> rv.status,
                body |-> rv.body, entry |-> looked.entry, cached |-> looked.value,
                calls |-> calls, at |-> now,
                done |-> t]
    /\ _cache' = cache2
    /\ now' = t
    /\ UNCHANGED <<config, threads>>

ping(request) ==
    LET auth == require_api_key(EXPECTED_API_KEY, request)
    IN  IF auth # NoneValue
        THEN Respond("/", request, auth, NoLookup, <<>>, _cache, now)
        ELSE Respond("/", request, jsonify([status |-> "ok", success |-> "true"]),
                     NoLookup, <<>>, _cache, now)

\* Mutant: every body the relay passes through is stored
ShouldStore_any_body(resp) == resp.type = "Response"

\* The try block of get_coinlist: is resp's body put into the cache?
\* resp.get_json raises on a tuple and data.get on a list; both are swallowed
ShouldStore(resp) ==
    /\ resp.type = "Response"
    /\ IsDict(resp.body)
    /\ get(resp.body, "success", "None") = "true"

get_coinlist(request, Ups, Lats) ==
    LET auth == require_api_key(EXPECTED_API_KEY, request)
        e == lower(strip(ArgOrEmpty(request, "e")))
        cache_key == KeyOf(request)
        got == cache_get(_cache, cache_key, now)
        cached == got.value
        looked == [entry |-> EntryOf(_cache, cache_key), value |-> cached]
    IN  IF auth # NoneValue
        THEN Respond("/coinlist/", request, auth, NoLookup, <<>>, _cache, now)
        ELSE IF ~Truthy(e)
        THEN Respond("/coinlist/", request, ParamError("param_e_missing"),
                     NoLookup, <<>>, _cache, now)
        ELSE IF TruthyValue(cached)
        THEN Respond("/coinlist/", request, jsonify(cached), looked, <<>>,
                     got.cache, now)
        ELSE \E up \in Ups, lat \in Lats :
             LET r == upstream_get("/coinlist/", [e |-> e], up)
                 resp == r.rv
                 t == IF r.calls = <<>> THEN now ELSE now + lat
             IN  Respond("/coinlist/", request, resp, looked, r.calls,
                         IF ShouldStore(resp)
                         THEN cache_put(got.cache, cache_key, resp.body, t)
                         ELSE got.cache,
                         t)

\* Mutant: the parameters are validated before the key
get_ticker_params_first(request, Ups, Lats) ==
    LET auth == require_api_key(EXPECTED_API_KEY, request)
        e == lower(strip(ArgOrEmpty(request, "e")))
        mp == upper(strip(ArgOrEmpty(request, "market_pair")))
    IN  IF ~Truthy(e)
        THEN Respond("/ticker/", request, ParamError("param_e_missing"),
                     NoLookup, <<>>, _cache, now)
        ELSE IF ~Truthy(mp)
        THEN Respond("/ticker/", request, ParamError("market_pair is missing"),
                     NoLookup, <<>>, _cache, now)
        ELSE IF auth # NoneValue
        THEN Respond("/ticker/", request, auth, NoLookup, <<>>, _cache, now)
        ELSE \E up \in Ups, lat \in Lats :
             LET r == upstream_get("/ticker/", [e |-> e, market_pair |-> mp], up)
                 t == IF r.calls = <<>> THEN now ELSE now + lat
             IN  Respond("/ticker/", request, r.rv, NoLookup, r.calls, _cache, t)

get_ticker(request, Ups, Lats) ==
    LET auth == require_api_key(EXPECTED_API_KEY, request)
        e == lower(strip(ArgOrEmpty(request, "e")))
        mp == upper(strip(ArgOrEmpty(request, "market_pair")))
    IN  IF auth # NoneValue
        THEN Respond("/ticker/", request, auth, NoLookup, <<>>, _cache, now)
        ELSE IF ~Truthy(e)
        THEN Respond("/ticker/", request, ParamError("param_e_missing"),
                     NoLookup, <<>>, _cache, now)
        ELSE IF ~Truthy(mp)
        THEN Respond("/ticker/", request, ParamError("market_pair is missing"),
                     NoLookup, <<>>, _cache, now)
        ELSE \E up \in Ups, lat \in Lats :
             LET r == upstream_get("/ticker/", [e |-> e, market_pair |-> mp], up)
                 t == IF r.calls = <<>> THEN now ELSE now + lat
             IN  Respond("/ticker/", request, r.rv, NoLookup, r.calls, _cache, t)

get_tickerlist(request, Ups, Lats) ==
    LET auth == require_api_key(EXPECTED_API_KEY, request)
        e == lower(strip(ArgOrEmpty(request, "e")))
    IN  IF auth # NoneValue
        THEN Respond("/tickerlist/", request, auth, NoLookup, <<>>, _cache, now)
        ELSE IF ~Truthy(e)
        THEN Respond("/tickerlist/", request, ParamError("param_e_missing"),
                     NoLookup, <<>>, _cache, now)
        ELSE \E up \in Ups, lat \in Lats :
             LET r == upstream_get("/tickerlist/", [e |-> e], up)
                 t == IF r.calls = <<>> THEN now ELSE now + lat
             IN  Respond("/tickerlist/", request, r.rv, NoLookup, r.calls, _cache, t)

get_api_usage_info(request) ==
    LET auth == require_api_key(EXPECTED_API_KEY, request)
    IN  IF auth # NoneValue
        THEN Respond("/info/", request, auth, NoLookup, <<>>, _cache, now)
        ELSE Respond("/info/", request,
                     jsonify([success |-> "true", error |-> "false",
                              env_ok |-> Truthy(EXPECTED_API_KEY),
                              auth_mode |-> UP_AUTH, key_name |-> UP_KEYNAM,
                              has_key |-> Truthy(UP_KEY)]),
                     NoLookup, <<>>, _cache, now)

\* get_limits going through the cache as get_coinlist does
get_limits_cached(request, Ups, Lats) ==
    LET auth == require_api_key(EXPECTED_API_KEY, request)
        cache_key == <<"limits:">>
        got == cache_get(_cache, cache_key, now)
        cached == got.value
        looked == [entry |-> EntryOf(_cache, cache_key), value |-> cached]
    IN  IF auth # NoneValue
        THEN Respond("/limits/", request, auth, NoLookup, <<>>, _cache, now)
        ELSE IF TruthyValue(cached)
        THEN Respond("/limits/", request, jsonify(cached), looked, <<>>,
                     got.cache, now)
        ELSE \E up \in Ups, lat \in Lats :
             LET r == upstream_get("/limits/", <<>>, up)
                 resp == r.rv
                 t == IF r.calls = <<>> THEN now ELSE now + lat
             IN  Respond("/limits/", request, resp, looked, r.calls,
                         IF ShouldStore(resp)
                         THEN cache_put(got.cache, cache_key, resp.body, t)
                         ELSE got.cache,
                         t)

get_limits(request, Ups, Lats) ==
    LET auth == require_api_key(EXPECTED_API_KEY, request)
    IN  IF auth # NoneValue
        THEN Respond("/limits/", request, auth, NoLookup, <<>>, _cache, now)
        ELSE \E up \in Ups, lat \in Lats :
             LET r == upstream_get("/limits/", <<>>, up)
                 t == IF r.calls = <<>> THEN now ELSE now + lat
             IN  Respond("/limits/", request, r.rv, NoLookup, r.calls, _cache, t)

\* The part of analyze_pair after its ticker call returned up_resp
analyze_rest(request, e, mp, up_resp, calls, t, Ais) ==
    LET up_json == up_resp.body
        rows == get(up_json, "data", <<>>)
        snap == IF rows # <<>> THEN rows[1] ELSE <<>>
        prompt == [pair |-> mp, exchange |-> e, snap |-> snap]
    IN  \* up_resp.get_json: a tuple has no such attribute; up_json.get: nor a list
        IF up_resp.type = "tuple" \/ ~IsDict(up_json)
        THEN Respond("/analyze/", request, InternalServerError, NoLookup,
                     calls, _cache, t)
        ELSE IF get(up_json, "success", "None") # "true"
        THEN Respond("/analyze/", request,
                     WithStatus([success |-> "false", error |-> "upstream_failed",
                                 upstream |-> up_json], 502),
                     NoLookup, calls, _cache, t)
        ELSE \E ai \in Ais :
             LET a == openai_complete(prompt, ai)
             IN  IF ~a.ret.ok
                 THEN Respond("/analyze/", request,
                              WithStatus([success |-> "false", error |-> a.ret.error,
                                          data |-> snap], 502),
                              NoLookup, calls \o a.calls, _cache, t)
                 ELSE Respond("/analyze/", request,
                              jsonify([success |-> "true", error |-> "false",
                                       pair |-> mp, exchange |-> e,
                                       analysis |-> a.ret.text, data |-> snap]),
                              NoLookup, calls \o a.calls, _cache, t)

analyze_pair(request, Ups, Lats, Ais) ==
    LET auth == require_api_key(EXPECTED_API_KEY, request)
        e == lower(strip(ArgOrEmpty(request, "e")))
        mp == upper(strip(ArgOrEmpty(request, "market_pair")))
    IN  IF auth # NoneValue
        THEN Respond("/analyze/", request, auth, NoLookup, <<>>, _cache, now)
        ELSE IF ~Truthy(e)
        THEN Respond("/analyze/", request, ParamError("param_e_missing"),
                     NoLookup, <<>>, _cache, now)
        ELSE IF ~Truthy(mp)
        THEN Respond("/analyze/", request, ParamError("market_pair is missing"),
                     NoLookup, <<>>, _cache, now)
        ELSE \E up \in Ups, lat \in Lats :
             LET r == upstream_get("/ticker/", [e |-> e, market_pair |-> mp], up)
                 t == IF r.calls = <<>> THEN now ELSE now + lat
             IN  analyze_rest(request, e, mp, r.rv, r.calls, t, Ais)

\* time.time() moves on between two requests
Tick(d) ==
    /\ now + d <= MaxTime
    /\ now' = now + d
    /\ UNCHANGED <<config, _cache, last, threads>>

----------------------------------------------------------------------------
(* The environment: configurations, requests, upstream answers *)

Good == <<"g">>                 \* the configured inbound credential
Wrong == <<"G">>                \* another credential
UpSecret == <<"u">>             \* the upstream credential
AiSecret == <<"o">>             \* the text provider's credential
Basic == <<"B", "a", "s", "i", "c", " ">>

UPSTREAM_TIMEOUT == 12

\* request.args / request.headers: a dict of the values that are present
MkRequest(q, h, e, mp) ==
    LET a == [api_key |-> q, e |-> e, market_pair |-> mp]
        hd == [Authorization |-> h]
    IN  [args |-> [k \in {x \in DOMAIN a : a[x] # None} |-> a[k]],
         headers |-> [k \in {x \in DOMAIN hd : hd[x] # None} |-> hd[k]]]

NoRequest ==
    [route |-> "none", request |-> MkRequest(None, None, None, None), status |-> 0,
     body |-> <<>>, entry |-> <<>>, cached |-> NoneValue, calls |-> <<>>,
     at |-> 0, done |-> 0]

Answer(kind, code, json) == [kind |-> kind, code |-> code, json |-> json]

OkBody(p) == [success |-> "true", data |-> <<[last |-> p]>>]
RefusedBody == [success |-> "false", error |-> "invalid exchange"]
ListBody == [json_list |-> <<"x">>]

UpstreamAnswers ==
    {Answer("ok", 200, OkBody(p)) : p \in 1..MaxPayload}
    \cup {Answer("ok", 200, b) : b \in {RefusedBody, ListBody}}
    \cup {Answer("http_error", c, <<>>) : c \in {404, 500}}
    \cup {Answer("unreachable", 0, <<>>)}

AiAnswers ==
    {Answer("ok", 200, "analysis"), Answer("http_error", 429, <<>>),
     Answer("unreachable", 0, <<>>)}

Latencies == {0, UPSTREAM_TIMEOUT}
Delays == {CACHE_TTL_SECONDS, CACHE_TTL_SECONDS + 1}

Exchanges == {None, <<"b">>, <<"B", " ">>, <<"k">>}
Pairs == {None, <<" ">>, <<"x">>}
RelayExchanges == {None, <<" ">>, <<"B", " ">>}

\* Credentials as sent: <<api_key query parameter, Authorization header>>
QueryKeys == {None, <<>>, Good, Wrong}
AuthHeaders == {None, Bearer, Bearer \o Good, Bearer \o Wrong, Basic \o Good}
AllCredentials == QueryKeys \X AuthHeaders

\* The requests with credentials from creds and <<e, market_pair>> from params
Requests(creds, params) ==
    {MkRequest(c[1], c[2], pm[1], pm[2]) : c \in creds, pm \in params}

NoParams == {<<None, None>>}

InitState ==
    /\ UP_KEYNAM = "api_key"
    /\ _cache = <<>>
    /\ now = 0
    /\ last = NoRequest
    /\ threads = <<>>

----------------------------------------------------------------------------
(* Spec: the cache over time.  /coinlist/ is asked for every exchange, by  *)
(* callers with and without the credential, and gets every upstream        *)
(* answer; the other routes are served in between.                         *)

Callers == {<<Good, None>>, <<None, None>>}
OneCaller == {<<Good, None>>}
SomeAnswers == {Answer("ok", 200, OkBody(1)), Answer("http_error", 500, <<>>)}
TextAnswer == {Answer("ok", 200, "analysis")}
NoLatency == {0}

\* The requests of each route
PlainRequests == Requests(OneCaller, NoParams)
CoinlistRequests == Requests(Callers, Exchanges \X {None})
ExchangeRequests == Requests(OneCaller, {<<(<<"b">>), None>>})
PairRequests == Requests(OneCaller, {<<(<<"b">>), (<<"x">>)>>})

Init ==
    /\ EXPECTED_API_KEY = Good
    /\ UP_KEY \in {<<>>, UpSecret}
    /\ UP_AUTH = Str_query
    /\ OPENAI_API_KEY = AiSecret
    /\ InitState

Next ==
    \/ \E request \in PlainRequests : ping(request)
    \/ \E request \in CoinlistRequests :
          get_coinlist(request, UpstreamAnswers, Latencies)
    \/ \E request \in PairRequests : get_ticker(request, SomeAnswers, NoLatency)
    \/ \E request \in ExchangeRequests :
          get_tickerlist(request, SomeAnswers, NoLatency)
    \/ \E request \in PlainRequests : get_api_usage_info(request)
    \/ \E request \in PlainRequests : get_limits(request, SomeAnswers, NoLatency)
    \/ \E request \in PairRequests :
          analyze_pair(request, SomeAnswers, NoLatency, TextAnswer)
    \/ \E d \in Delays : Tick(d)

Spec == Init /\ [][Next]_vars

----------------------------------------------------------------------------
(* SpecRelay: the relay and its callers.  Every route gets every upstream  *)
(* and text-provider answer under every upstream configuration; no time    *)
(* passes.                                                                 *)

InitRelay ==
    /\ EXPECTED_API_KEY = Good
    /\ UP_KEY \in {<<>>, UpSecret}
    /\ UP_AUTH \in {Str_query, Str_bearer}
    /\ OPENAI_API_KEY \in {<<>>, AiSecret}
    /\ InitState

RelayExchangeRequests == Requests(OneCaller, RelayExchanges \X {None})
RelayPairRequests == Requests(OneCaller, RelayExchanges \X Pairs)

NextRelay ==
    \/ \E request \in PlainRequests : ping(request)
    \/ \E request \in RelayExchangeRequests :
          get_coinlist(request, UpstreamAnswers, NoLatency)
    \/ \E request \in RelayPairRequests :
          get_ticker(request, UpstreamAnswers, NoLatency)
    \/ \E request \in RelayExchangeRequests :
          get_tickerlist(request, UpstreamAnswers, NoLatency)
    \/ \E request \in PlainRequests : get_api_usage_info(request)
    \/ \E request \in PlainRequests :
          get_limits(request, UpstreamAnswers, NoLatency)
    \/ \E request \in RelayPairRequests :
          analyze_pair(request, UpstreamAnswers, NoLatency, AiAnswers)

SpecRelay == InitRelay /\ [][NextRelay]_vars

----------------------------------------------------------------------------
(* SpecAuth: the key check.  Every route gets every combination of query   *)
(* credential and Authorization header, with and without its parameters,   *)
(* with and without an expected key configured.                            *)

InitAuth ==
    /\ EXPECTED_API_KEY \in {None, <<>>, Good}
    /\ UP_KEY \in {<<>>, UpSecret}
    /\ UP_AUTH = Str_query
    /\ OPENAI_API_KEY = AiSecret
    /\ InitState

AuthParams == {<<None, None>>, <<(<<"b">>), (<<"x">>)>>}
OneAnswer == {Answer("ok", 200, OkBody(1))}

AuthRequests == Requests(AllCredentials, AuthParams)

NextAuth ==
    \/ \E request \in AuthRequests : ping(request)
    \/ \E request \in AuthRequests : get_coinlist(request, OneAnswer, NoLatency)
    \/ \E request \in AuthRequests : get_ticker(request, OneAnswer, NoLatency)
    \/ \E request \in AuthRequests : get_tickerlist(request, OneAnswer, NoLatency)
    \/ \E request \in AuthRequests : get_api_usage_info(request)
    \/ \E request \in AuthRequests : get_limits(request, OneAnswer, NoLatency)
    \/ \E request \in AuthRequests :
          analyze_pair(request, OneAnswer, NoLatency, TextAnswer)

SpecAuth == InitAuth /\ [][NextAuth]_vars

----------------------------------------------------------------------------
(* SpecCache: the cache alone.  cache_get and cache_put are called with    *)
(* any key and any value while the clock moves on.                         *)

CacheKeys == {<<"coinlist:", "b">>, <<"coinlist:", "k">>}
CacheValues == {OkBody(p) : p \in 1..MaxPayload}
CacheDelays == Delays \cup {UPSTREAM_TIMEOUT}

CacheGet(key) ==
    LET r == cache_get(_cache, key, now)
    IN  /\ _cache' = r.cache
        /\ last' = [route |-> "cache_get", key |-> key,
                    entry |-> EntryOf(_cache, key), value |-> r.value, at |-> now]
        /\ UNCHANGED <<config, now, threads>>

CachePut(key, data) ==
    /\ _cache' = cache_put(_cache, key, data, now)
    /\ last' = [route |-> "cache_put", key |-> key,
                entry |-> EntryOf(_cache, key), value |-> data, at |-> now]
    /\ UNCHANGED <<config, now, threads>>

InitCache ==
    /\ EXPECTED_API_KEY = Good
    /\ UP_KEY = UpSecret
    /\ UP_AUTH = Str_query
    /\ OPENAI_API_KEY = AiSecret
    /\ UP_KEYNAM = "api_key"
    /\ _cache = <<>>
    /\ now = 0
    /\ last = [route |-> "none", key |-> <<>>, entry |-> <<>>,
               value |-> NoneValue, at |-> 0]
    /\ threads = <<>>

NextCache ==
    \/ \E key \in CacheKeys : CacheGet(key)
    \/ \E key \in CacheKeys, data \in CacheValues : CachePut(key, data)
    \/ \E d \in CacheDelays : Tick(d)

SpecCache == InitCache /\ [][NextCache]_vars

----------------------------------------------------------------------------
(* SpecThreads: get_coinlist line by line.  app.run serves each request on *)
(* a thread of its own; the threads share _cache and nothing else, and a   *)
(* thread can be preempted between any two lines.  The label of a step is  *)
(* the source line the thread is about to run.                             *)

NumThreads == 2
Threads == 1..NumThreads

ThreadRequests == Requests(Callers, {None, <<"b">>} \X {None})
ThreadAnswers ==
    {Answer("ok", 200, OkBody(p)) : p \in 1..MaxPayload}
        \cup {Answer("ok", 200, RefusedBody), Answer("http_error", 500, <<>>)}

\* A thread that serves nothing
Idle ==
    [pc |-> "idle", request |-> <<>>, key |-> <<>>, tnow |-> 0, v |-> <<>>,
     resp |-> NoneValue, calls |-> 0, returned |-> <<>>]

\* return rv
Return(th, rv) ==
    threads' = [threads EXCEPT ![th].pc = "done",
                               ![th].returned = @ \o <<rv.status>>]

Goto(th, pc) == threads' = [threads EXCEPT ![th].pc = pc]

\* A request is handed to a thread that serves none
Arrive(th, request) ==
    /\ threads[th].pc \in {"idle", "done"}
    /\ threads' = [threads EXCEPT ![th] = [Idle EXCEPT !.pc = "l155",
                                                        !.request = request]]
    /\ UNCHANGED <<config, _cache, now, last>>

\* Line155 going on to the relay once the key is accepted, before e is read
Line155_relay_first(th) ==
    /\ threads[th].pc = "l155"
    /\ LET auth == require_api_key(EXPECTED_API_KEY, threads[th].request)
       IN  IF auth # NoneValue THEN Return(th, auth) ELSE Goto(th, "l167")
    /\ UNCHANGED <<config, _cache, now, last>>

\* auth = require_api_key(); if auth: return auth
Line155(th) ==
    /\ threads[th].pc = "l155"
    /\ LET auth == require_api_key(EXPECTED_API_KEY, threads[th].request)
       IN  IF auth # NoneValue THEN Return(th, auth) ELSE Goto(th, "l159")
    /\ UNCHANGED <<config, _cache, now, last>>

\* e = ...; if not e: return ..., 400; cache_key = f"coinlist:{e}"
Line159(th) ==
    /\ threads[th].pc = "l159"
    /\ LET e == lower(strip(ArgOrEmpty(threads[th].request, "e")))
       IN  IF ~Truthy(e) THEN Return(th, ParamError("param_e_missing"))
           ELSE threads' = [threads EXCEPT ![th].pc = "l58",
                                           ![th].key = KeyOf(threads[th].request)]
    /\ UNCHANGED <<config, _cache, now, last>>

\* cache_get: now = time.time()
Line58(th) ==
    /\ threads[th].pc = "l58"
    /\ threads' = [threads EXCEPT ![th].pc = "l59", ![th].tnow = now]
    /\ UNCHANGED <<config, _cache, now, last>>

\* cache_get: v = _cache.get(key), and the tests of lines 60 to 66 on the
\* locals; get_coinlist line 163: if cached
Line59(th) ==
    /\ threads[th].pc = "l59"
    /\ LET v == EntryOf(_cache, threads[th].key)
           pc == IF v = <<>> THEN "l167"
                 ELSE IF threads[th].tnow - v[1] > CACHE_TTL_SECONDS THEN "l64"
                 ELSE IF TruthyValue(v[2]) THEN "l164"
                 ELSE "l167"
       IN  threads' = [threads EXCEPT ![th].pc = pc, ![th].v = v]
    /\ UNCHANGED <<config, _cache, now, last>>

\* cache_get: _cache.pop(key, None); return None
Line64(th) ==
    /\ threads[th].pc = "l64"
    /\ LET key == threads[th].key
       IN  /\ _cache' = [k \in DOMAIN _cache \ {key} |-> _cache[k]]
           /\ last' = [route |-> "pop", key |-> key,
                       entry |-> EntryOf(_cache, key), value |-> threads[th].v,
                       at |-> now]
    /\ Goto(th, "l167")
    /\ UNCHANGED <<config, now>>

\* return jsonify(cached)
Line164(th) ==
    /\ threads[th].pc = "l164"
    /\ Return(th, jsonify(threads[th].v[2]))
    /\ UNCHANGED <<config, _cache, now, last>>

\* resp = upstream_get("/coinlist/", {"e": e}): the call is entered
Line167(th) ==
    /\ threads[th].pc = "l167"
    /\ Goto(th, "l81")
    /\ UNCHANGED <<config, _cache, now, last>>

\* upstream_get: if not UP_KEY: return ...; else requests.get goes out
Line81(th) ==
    /\ threads[th].pc = "l81"
    /\ IF ~Truthy(UP_KEY)
       THEN threads' = [threads EXCEPT
                            ![th].pc = "l168",
                            ![th].resp = _auth_fail("upstream_key_missing", 500)]
       ELSE threads' = [threads EXCEPT ![th].pc = "l95", ![th].calls = @ + 1]
    /\ UNCHANGED <<config, _cache, now, last>>

\* upstream_get: requests.get returns or raises, timeout=12 at the latest
Line95(th, up) ==
    /\ threads[th].pc = "l95"
    /\ LET e == lower(strip(ArgOrEmpty(threads[th].request, "e")))
       IN  threads' = [threads EXCEPT
                           ![th].pc = "l168",
                           ![th].resp = upstream_get("/coinlist/", [e |-> e], up).rv]
    /\ UNCHANGED <<config, _cache, now, last>>

\* if data.get("success") == "true": cache_put(cache_key, data); return resp
Line168(th) ==
    /\ threads[th].pc = "l168"
    /\ LET resp == threads[th].resp
       IN  /\ _cache' = IF ShouldStore(resp)
                        THEN cache_put(_cache, threads[th].key, resp.body, now)
                        ELSE _cache
           /\ Return(th, resp)
    /\ UNCHANGED <<config, now, last>>

\* Time passes while the threads are where they are
ThreadTick(d) ==
    /\ now + d <= MaxTime
    /\ now' = now + d
    /\ UNCHANGED <<config, _cache, last, threads>>

\* The steps of a thread that serves a request
Step(th) ==
    \/ Line155(th)
    \/ Line159(th)
    \/ Line58(th)
    \/ Line59(th)
    \/ Line64(th)
    \/ Line164(th)
    \/ Line167(th)
    \/ Line81(th)
    \/ \E up \in ThreadAnswers : Line95(th, up)
    \/ Line168(th)

InitThreads ==
    /\ EXPECTED_API_KEY = Good
    /\ UP_KEY \in {<<>>, UpSecret}
    /\ UP_AUTH = Str_query
    /\ OPENAI_API_KEY = AiSecret
    /\ UP_KEYNAM = "api_key"
    /\ _cache = <<>>
    /\ now = 0
    /\ last = [route |-> "none", key |-> <<>>, entry |-> <<>>,
               value |-> <<>>, at |-> 0]
    /\ threads = [th \in Threads |-> Idle]

NextThreads ==
    \/ \E th \in Threads, request \in ThreadRequests : Arrive(th, request)
    \/ \E th \in Threads : Step(th)
    \/ \E d \in Delays : ThreadTick(d)

\* A thread that serves a request is scheduled again, and requests.get comes
\* back (timeout=12)
SpecThreads ==
    InitThreads /\ [][NextThreads]_vars /\ \A th \in Threads : WF_vars(Step(th))

----------------------------------------------------------------------------
(* The claims.  `last` is the request served most recently.                *)

Served == last.route # "none"

\* The api_key query parameter, None if the request has none
QueryKey(request) == get(request.args, "api_key", None)

\* The credential of an Authorization: Bearer header, None if there is none
BearerKey(request) ==
    LET h == get(request.headers, "Authorization", None)
    IN  IF h # None /\ startswith(h, Bearer)
        THEN SubSeq(h, Len(Bearer) + 1, Len(h))
        ELSE None

\* The credential the key check goes by: the query parameter unless it is
\* absent or empty, else the bearer credential
Candidate(request) ==
    IF QueryKey(request) \notin {None, <<>>} THEN QueryKey(request)
    ELSE BearerKey(request)

Failure(msg) == [success |-> "false", error |-> msg]

\* C1 as stated: with an expected credential configured, a request that
\* supplies, as query parameter or as bearer header, a non-empty credential
\* other than the configured one gets 401 with reason credential_invalid.
C1_AsStated ==
    (/\ Served
     /\ Truthy(EXPECTED_API_KEY)
     /\ \E c \in {QueryKey(last.request), BearerKey(last.request)} \ {None, <<>>} :
            c # EXPECTED_API_KEY)
    => (last.status = 401 /\ last.body = Failure("credential_invalid"))

\* C1 as amended: with an expected credential configured, a request on any
\* route whose candidate credential (the api_key query parameter unless absent
\* or empty, else the bearer credential) is not empty and differs from the
\* configured one gets 401 with error "api_key is missing or invalid", and
\* nothing is called upstream.
C1_WrongKeyRejected ==
    (/\ Served
     /\ Truthy(EXPECTED_API_KEY)
     /\ Candidate(last.request) \notin {None, <<>>, EXPECTED_API_KEY})
    => (/\ last.status = 401
        /\ last.body = Failure("api_key is missing or invalid")
        /\ last.calls = <<>>)

\* A wrong key in the header of an /analyze/ request that has its parameters,
\* with no upstream key configured, is rejected with 401.
C1_Witness ==
    /\ last.route = "/analyze/"
    /\ QueryKey(last.request) = None
    /\ BearerKey(last.request) = Wrong
    /\ "market_pair" \in DOMAIN last.request.args
    /\ EXPECTED_API_KEY = Good
    /\ ~Truthy(UP_KEY)
    /\ last.status = 401

\* C2 as stated: with an expected credential configured, a request with
\* neither an api_key query parameter nor a bearer header gets 401 with reason
\* credential_missing.
C2_AsStated ==
    (/\ Served
     /\ Truthy(EXPECTED_API_KEY)
     /\ QueryKey(last.request) = None
     /\ BearerKey(last.request) = None)
    => (last.status = 401 /\ last.body = Failure("credential_missing"))

\* C2 as amended: with an expected credential configured, a request on any
\* route with neither an api_key query parameter nor a bearer header gets 401
\* with error "api_key is missing", which is not the error a wrong credential
\* gets.
C2_MissingKeyRejected ==
    (/\ Served
     /\ Truthy(EXPECTED_API_KEY)
     /\ QueryKey(last.request) = None
     /\ BearerKey(last.request) = None)
    => (/\ last.status = 401
        /\ last.body = Failure("api_key is missing")
        /\ last.body.error #
             require_api_key(EXPECTED_API_KEY,
                             MkRequest(Wrong, None, None, None)).body.error
        /\ last.calls = <<>>)

\* A /limits/ request with an Authorization header of another scheme and no
\* query parameter is rejected as lacking a key.
C2_Witness ==
    /\ last.route = "/limits/"
    /\ QueryKey(last.request) = None
    /\ "Authorization" \in DOMAIN last.request.headers
    /\ BearerKey(last.request) = None
    /\ EXPECTED_API_KEY = Good
    /\ last.status = 401

\* C3 as stated: with no expected credential configured, every request fails
\* with 500 and reason server_misconfigured.
C3_AsStated ==
    (Served /\ ~Truthy(EXPECTED_API_KEY))
    => (last.status = 500 /\ last.body = Failure("server_misconfigured"))

\* C3 as amended: with no expected credential configured (unset or empty),
\* every request on every route fails with 500 and error
\* "server_missing_api_key_env", whatever credential it carries and where; none
\* is authorized, so none reaches the upstream or the cache.
C3_NoExpectedKey ==
    (Served /\ ~Truthy(EXPECTED_API_KEY))
    => (/\ last.status = 500
        /\ last.body = Failure("server_missing_api_key_env")
        /\ last.calls = <<>>
        /\ _cache = <<>>)

\* The expected key is the empty string and the request sends an empty
\* api_key, equal to it: still 500.
C3_Witness ==
    /\ EXPECTED_API_KEY = <<>>
    /\ last.route = "/coinlist/"
    /\ QueryKey(last.request) = <<>>
    /\ last.status = 500

\* C4: on every route a request that fails the key check gets the key check's
\* failure, 401 or 500, never a 400 for its parameters, and calls nothing.
C4_AuthBeforeParams ==
    (Served /\ require_api_key(EXPECTED_API_KEY, last.request) # NoneValue)
    => (/\ last.status \in {401, 500}
        /\ last.body = require_api_key(EXPECTED_API_KEY, last.request).body
        /\ last.calls = <<>>)

\* A /ticker/ request without e, without market_pair and with a wrong key gets
\* 401.
C4_Witness ==
    /\ last.route = "/ticker/"
    /\ DOMAIN last.request.args = {"api_key"}
    /\ QueryKey(last.request) = Wrong
    /\ last.status = 401

\* C5: a cache_get that finds an entry older than the TTL returns None and
\* leaves the key absent; one that finds an entry of age at most the TTL
\* returns its value and leaves the entry as it was; one that finds none
\* returns None.
C5_NoStaleRead ==
    last.route = "cache_get"
    => IF last.entry = <<>>
       THEN last.value = NoneValue /\ last.key \notin DOMAIN _cache
       ELSE IF last.at - last.entry[1] > CACHE_TTL_SECONDS
       THEN last.value = NoneValue /\ last.key \notin DOMAIN _cache
       ELSE /\ last.value = last.entry[2]
            /\ last.key \in DOMAIN _cache
            /\ _cache[last.key] = last.entry

\* A cache_get found an entry one second past the TTL, while the other key's
\* entry stays.
C5_Witness ==
    /\ last.route = "cache_get"
    /\ last.entry # <<>>
    /\ last.at - last.entry[1] = CACHE_TTL_SECONDS + 1
    /\ last.value = NoneValue
    /\ DOMAIN _cache # {}

\* The upstream answered 2xx with an object whose success field is "true"
Successful(a) ==
    a.kind = "ok" /\ IsDict(a.json) /\ get(a.json, "success", "None") = "true"

\* The exchange a request names, normalized
Exchange(request) == lower(strip(ArgOrEmpty(request, "e")))

\* This step serves a request: it arrived at `now` and is answered at now'
RequestStep == last'.route # "none" /\ last'.at = now /\ last'.done = now'

\* C6: when a /coinlist/ request missed the cache, got a successful upstream
\* answer with one call, and the next request served is an authorized
\* /coinlist/ request for the same normalized exchange arriving at most TTL
\* seconds after the first was answered, the second calls nothing upstream and
\* its body is the first's payload.
C6_SecondServedFromCache ==
    [][(/\ last.route = "/coinlist/"
        /\ last.status = 200
        /\ last.cached = NoneValue
        /\ Len(last.calls) = 1
        /\ Successful(last.calls[1].answer)
        /\ RequestStep
        /\ last'.route = "/coinlist/"
        /\ Candidate(last'.request) = EXPECTED_API_KEY
        /\ Exchange(last'.request) = Exchange(last.request)
        /\ now - last.done <= CACHE_TTL_SECONDS)
       => (/\ last'.calls = <<>>
           /\ last'.status = 200
           /\ last'.body = last.calls[1].answer.json)]_vars

\* A /coinlist/ request spelling the exchange "B " is served, without a call,
\* the payload stored exactly TTL seconds before.
C6_Witness ==
    /\ last.route = "/coinlist/"
    /\ get(last.request.args, "e", None) = <<"B", " ">>
    /\ last.entry # <<>>
    /\ last.at - last.entry[1] = CACHE_TTL_SECONDS
    /\ last.calls = <<>>
    /\ last.body = last.entry[2]

\* C7: a /coinlist/ request that finds its key stored more than TTL seconds
\* ago is not served from the cache: it makes one upstream call; if the answer
\* is successful the response is that answer and the cache holds it under the
\* key with the time of the answer, later than the old timestamp; if not, the
\* key is left absent.
C7_ExpiredRefetched ==
    (/\ last.route = "/coinlist/"
     /\ last.entry # <<>>
     /\ last.at - last.entry[1] > CACHE_TTL_SECONDS)
    => (/\ last.cached = NoneValue
        /\ Len(last.calls) = 1
        /\ last.calls[1].to = "upstream"
        /\ LET a == last.calls[1].answer
               key == <<"coinlist:">> \o Exchange(last.request)
           IN  IF Successful(a)
               THEN /\ last.status = 200
                    /\ last.body = a.json
                    /\ key \in DOMAIN _cache
                    /\ _cache[key] = <<last.done, a.json>>
                    /\ last.done > last.entry[1]
               ELSE /\ key \notin DOMAIN _cache
                    /\ last.status # 200 \/ ~Successful(Answer("ok", 200, last.body)))

\* An expired entry was replaced by a different payload.
C7_Witness ==
    /\ last.route = "/coinlist/"
    /\ last.entry # <<>>
    /\ last.at - last.entry[1] > CACHE_TTL_SECONDS
    /\ last.status = 200
    /\ KeyOf(last.request) \in DOMAIN _cache
    /\ _cache[KeyOf(last.request)][2] # last.entry[2]
    /\ _cache[KeyOf(last.request)][1] = last.done

\* C8: every cache entry holds a body the upstream answered with 2xx, an
\* object whose success field is "true"; no error envelope is stored.
C8_OnlySuccessCached ==
    \A k \in DOMAIN _cache :
        LET d == _cache[k][2]
        IN  /\ Successful(Answer("ok", 200, d))
            /\ "error" \notin DOMAIN d
            /\ \E a \in UpstreamAnswers : a.kind = "ok" /\ a.json = d

\* A /coinlist/ request ended 502 for one exchange while another exchange's
\* payload stays cached.
C8_Witness ==
    /\ last.route = "/coinlist/"
    /\ last.status = 502
    /\ KeyOf(last.request) \notin DOMAIN _cache
    /\ DOMAIN _cache # {}

RelayRoutes == {"/coinlist/", "/ticker/", "/tickerlist/", "/limits/"}

\* C9: on /coinlist/, /ticker/, /tickerlist/ and /limits/, an upstream HTTP
\* error gives 502 with the failure envelope whose error carries the upstream
\* status code; no answer from the upstream gives 502 (or 504) with the
\* failure envelope "upstream_unreachable", an error no HTTP error gets; the
\* caller never gets the server's own fault page.
C9_UpstreamFailureMapped ==
    (last.route \in RelayRoutes /\ last.calls # <<>>)
    => LET a == last.calls[1].answer
       IN  /\ a.kind = "http_error"
              => /\ last.status = 502
                 /\ last.body = Failure("upstream_http_" \o ToString(a.code))
           /\ a.kind = "unreachable"
              => /\ last.status \in {502, 504}
                 /\ last.body = Failure("upstream_unreachable")
                 /\ \A c \in 400..599 :
                        last.body.error # "upstream_http_" \o ToString(c)
           /\ a.kind # "ok" => last.body # InternalServerError.body

\* /coinlist/ got a 404 from the upstream and answered 502.
C9_Witness ==
    /\ last.route = "/coinlist/"
    /\ last.calls # <<>>
    /\ last.calls[1].answer.kind = "http_error"
    /\ last.calls[1].answer.code = 404
    /\ last.status = 502

\* C10 as stated: when the ticker call of an authorized /analyze/ request with
\* its parameters fails (no upstream key, HTTP error, no answer, or an object
\* whose success field is not "true"), the caller gets a failure envelope and
\* the text provider is not called.
C10_AsStated ==
    (/\ last.route = "/analyze/"
     /\ last.status \notin {400, 401}
     /\ \/ ~Truthy(UP_KEY)
        \/ /\ last.calls # <<>>
           /\ LET a == last.calls[1].answer
              IN  \/ a.kind # "ok"
                  \/ IsDict(a.json) /\ get(a.json, "success", "None") # "true")
    => (/\ "success" \in DOMAIN last.body
        /\ last.body.success = "false"
        /\ \A i \in DOMAIN last.calls : last.calls[i].to # "openai")

\* The credential check lets the request through
Authorized(request) ==
    Truthy(EXPECTED_API_KEY) /\ Candidate(request) = EXPECTED_API_KEY

\* A parameter that is absent, empty or made of spaces only
Blank(request, name) ==
    LET v == get(request.args, name, None)
    IN  v = None \/ \A i \in DOMAIN v : v[i] = " "

\* The parameters a route requires
Required(route) ==
    CASE route \in {"/coinlist/", "/tickerlist/"} -> {"e"}
      [] route \in {"/ticker/", "/analyze/"} -> {"e", "market_pair"}
      [] OTHER -> {}

\* C11: an authorized /ticker/ request with e present and market_pair absent
\* or blank gets 400 with error "market_pair is missing"; an authorized
\* request on /coinlist/, /ticker/, /tickerlist/ or /analyze/ that lacks a
\* required parameter gets 400; in both cases nothing is called upstream.
C11_MissingParamRejected ==
    (/\ Served
     /\ Authorized(last.request)
     /\ \E name \in Required(last.route) : Blank(last.request, name))
    => (/\ last.status = 400
        /\ last.calls = <<>>
        /\ (/\ last.route = "/ticker/"
            /\ ~Blank(last.request, "e")
            /\ Blank(last.request, "market_pair"))
           => last.body = Failure("market_pair is missing"))

\* /ticker/ was asked with an exchange and a market_pair of one space, while
\* an upstream key is configured, and answered 400.
C11_Witness ==
    /\ last.route = "/ticker/"
    /\ Authorized(last.request)
    /\ ~Blank(last.request, "e")
    /\ get(last.request.args, "market_pair", None) = <<" ">>
    /\ Truthy(UP_KEY)
    /\ last.status = 400
    /\ last.calls = <<>>

\* The request passes the credential check and has the parameters its route
\* requires, so the route goes on to the relay
ReachesRelay(route, request) ==
    /\ Authorized(request)
    /\ \A name \in Required(route) : ~Blank(request, name)

\* C12: with no upstream credential configured, every request that reaches
\* the relay on /coinlist/, /ticker/, /tickerlist/ or /limits/ is answered 500
\* with error "upstream_key_missing"; on these routes and on /analyze/ the
\* relay returns that failure whatever the upstream would answer, no outbound
\* request is issued, and the cache is as it was.
C12_NoUpstreamKeyFailsFast ==
    (/\ Served
     /\ ~Truthy(UP_KEY)
     /\ last.route \in RelayRoutes \cup {"/analyze/"}
     /\ ReachesRelay(last.route, last.request))
    => (/\ last.calls = <<>>
        /\ _cache = <<>>
        /\ \A up \in UpstreamAnswers :
               upstream_get(last.route, <<>>, up) =
                   [rv |-> WithStatus(Failure("upstream_key_missing"), 500),
                    calls |-> <<>>]
        /\ last.route \in RelayRoutes
           => /\ last.status = 500
              /\ last.body = Failure("upstream_key_missing"))

\* /tickerlist/ was asked with an exchange while no upstream key is
\* configured in bearer mode, and answered 500 without calling out.
C12_Witness ==
    /\ last.route = "/tickerlist/"
    /\ ReachesRelay(last.route, last.request)
    /\ ~Truthy(UP_KEY)
    /\ UP_AUTH = Str_bearer
    /\ last.status = 500
    /\ last.body = Failure("upstream_key_missing")
    /\ last.calls = <<>>

\* The outbound calls of the last request that went to `to`
CallsTo(to) == {i \in DOMAIN last.calls : last.calls[i].to = to}

\* C13: no request is retried: whatever the upstream answers, a request
\* issues at most one call to the market-data upstream; /analyze/ issues at
\* most one call to the text provider and the other routes none; / and /info/
\* issue no outbound call at all.
C13_NoRetry ==
    Served
    => (/\ Cardinality(CallsTo("upstream")) <= 1
        /\ Cardinality(CallsTo("openai")) <=
               (IF last.route = "/analyze/" THEN 1 ELSE 0)
        /\ last.route \in {"/", "/info/"} => last.calls = <<>>)

\* /analyze/ called the upstream once and the text provider once, and the
\* text provider did not answer.
C13_Witness ==
    /\ last.route = "/analyze/"
    /\ Cardinality(CallsTo("upstream")) = 1
    /\ Cardinality(CallsTo("openai")) = 1
    /\ \E i \in CallsTo("openai") : last.calls[i].answer.kind = "unreachable"
    /\ last.status = 502

\* The answer is one of the credential check's refusals
RefusedByKeyCheck ==
    \/ last.status = 401
    \/ last.body \in {Failure("api_key is missing"),
                      Failure("api_key is missing or invalid"),
                      Failure("server_missing_api_key_env")}

\* C14: the credential check reads the api_key query parameter first and the
\* Authorization header only when the query parameter gives nothing: with an
\* expected key configured, a request whose query parameter is present and
\* wrong is answered 401 even with the right bearer header, and a request
\* whose query parameter is absent or empty and whose bearer header carries
\* the right key passes the check.
C14_QueryBeforeHeader ==
    (Served /\ Truthy(EXPECTED_API_KEY))
    => (/\ QueryKey(last.request) \notin {None, <<>>, EXPECTED_API_KEY}
           => /\ last.status = 401
              /\ last.calls = <<>>
        /\ (/\ QueryKey(last.request) \in {None, <<>>}
            /\ BearerKey(last.request) = EXPECTED_API_KEY)
           => /\ ~RefusedByKeyCheck
              /\ last.route \in {"/", "/info/"} => last.status = 200)

\* A wrong key in the query string beside the right key in the bearer header
\* was answered 401.
C14_Witness ==
    /\ Truthy(EXPECTED_API_KEY)
    /\ QueryKey(last.request) = Wrong
    /\ BearerKey(last.request) = EXPECTED_API_KEY
    /\ last.status = 401

\* The request served last got a successful upstream answer with one call,
\* and this step serves the same request again on the same route, arriving at
\* most TTL seconds after the first was answered
SecondWithinTTL ==
    /\ last.route \in RelayRoutes
    /\ Authorized(last.request)
    /\ last.status = 200
    /\ Len(last.calls) = 1
    /\ Successful(last.calls[1].answer)
    /\ RequestStep
    /\ last'.route = last.route
    /\ last'.request = last.request
    /\ now - last.done <= CACHE_TTL_SECONDS

\* C15 as stated: on /coinlist/, /ticker/, /tickerlist/ and /limits/, the
\* second of two identical authorized requests, arriving within TTL seconds
\* of the successful first, is answered from the cache: it calls nothing
\* upstream and its body is the first's.
C15_AsStated ==
    [][SecondWithinTTL
       => (/\ last'.calls = <<>>
           /\ last'.status = 200
           /\ last'.body = last.body)]_vars

\* C15 as amended: only /coinlist/ goes through the cache.  The second of two
\* identical authorized requests within TTL seconds of the successful first
\* is, on /coinlist/, answered from the cache with the first's body and no
\* upstream call; on /ticker/, /tickerlist/ and /limits/ it looks nothing up,
\* calls the upstream once more and leaves the cache as it was.
C15_OnlyCoinlistCached ==
    [][SecondWithinTTL
       => IF last.route = "/coinlist/"
          THEN /\ last'.calls = <<>>
               /\ last'.status = 200
               /\ last'.body = last.body
          ELSE /\ Len(last'.calls) = 1
               /\ last'.calls[1].to = "upstream"
               /\ last'.entry = <<>>
               /\ last'.cached = NoneValue
               /\ _cache' = _cache]_vars

\* /ticker/ was asked for exchange b while the cache held the fresh coin list
\* of exchange b, looked nothing up and called the upstream.
C15_Witness ==
    /\ last.route = "/ticker/"
    /\ Authorized(last.request)
    /\ last.status = 200
    /\ Len(last.calls) = 1
    /\ <<"coinlist:", "b">> \in DOMAIN _cache
    /\ last.at - _cache[<<"coinlist:", "b">>][1] <= CACHE_TTL_SECONDS
    /\ last.at > 0
    /\ last.cached = NoneValue

\* C16 as stated: with several threads inside get_coinlist, whatever the
\* interleaving of their cache_get and cache_put steps, the entry cache_get
\* removes from the cache is more than TTL seconds old.
C16_AsStated ==
    (last.route = "pop" /\ last.entry # <<>>)
    => last.at - last.entry[1] > CACHE_TTL_SECONDS

\* The state of the request machine a thread is in, from the line it is at
Phase(t) ==
    CASE t.pc = "idle" -> "None"
      [] t.pc = "l155" -> "Unauthenticated"
      [] t.pc = "l159" -> "Authorized"
      [] t.pc \in {"l58", "l59", "l64"} -> "ParamsValidated"
      [] t.pc = "l164" -> "CacheHit"
      [] t.pc = "l167" -> "CacheMiss"
      [] t.pc \in {"l81", "l95"} -> "UpstreamCalled"
      [] t.pc = "l168" ->
            IF t.resp.type = "Response" THEN "UpstreamOk" ELSE "UpstreamError"
      [] OTHER -> "Responded"

\* The moves of the request machine; a refusal by the key check or the
\* parameter check goes straight to Responded
Moves ==
    {<<"Unauthenticated", "Authorized">>, <<"Authorized", "ParamsValidated">>,
     <<"ParamsValidated", "CacheHit">>, <<"CacheHit", "Responded">>,
     <<"ParamsValidated", "CacheMiss">>, <<"CacheMiss", "UpstreamCalled">>,
     <<"UpstreamCalled", "UpstreamOk">>, <<"UpstreamCalled", "UpstreamError">>,
     <<"UpstreamOk", "Responded">>, <<"UpstreamError", "Responded">>,
     <<"Unauthenticated", "Responded">>, <<"Authorized", "Responded">>}

\* A request is handed to a thread
Arrivals == {<<"None", "Unauthenticated">>, <<"Responded", "Unauthenticated">>}

\* C17 (the moves): a request on a thread changes state only along
\* Unauthenticated -> Authorized -> ParamsValidated -> (CacheHit -> Responded)
\* | (CacheMiss -> UpstreamCalled -> UpstreamOk / UpstreamError -> Responded),
\* or from a failed check to Responded; a response is returned on entering
\* Responded and at no other move, and an outbound call is issued in state
\* UpstreamCalled and in no other.
C17_MovesOnlyAlongMachine ==
    [][\A th \in Threads :
         LET from == Phase(threads[th])
             to == Phase(threads'[th])
         IN  /\ from # to => <<from, to>> \in Moves \cup Arrivals
             /\ <<from, to>> \notin Arrivals
                => /\ Len(threads'[th].returned) =
                          Len(threads[th].returned) +
                              (IF from # to /\ to = "Responded" THEN 1 ELSE 0)
                   /\ threads'[th].calls # threads[th].calls
                          => from = "UpstreamCalled" /\ to = "UpstreamCalled"]_vars

\* C17 (the states): a request that has reached Responded has returned one
\* response and one that has not has returned none; before UpstreamCalled no
\* outbound call has been issued, and never more than one.
C17_OneResponse ==
    \A th \in Threads :
        LET t == threads[th]
        IN  /\ Len(t.returned) = (IF Phase(t) = "Responded" THEN 1 ELSE 0)
            /\ t.calls \in {0, 1}
            /\ Phase(t) \in {"None", "Unauthenticated", "Authorized",
                             "ParamsValidated", "CacheHit", "CacheMiss"}
               => t.calls = 0

\* C17 (the end): every request handed to a thread reaches Responded, given
\* that the thread keeps being scheduled and requests.get comes back.
C17_EventuallyResponded ==
    \A th \in Threads :
        (Phase(threads[th]) \notin {"None", "Responded"})
            ~> (Phase(threads[th]) = "Responded")

CallerParams(route, request) ==
    CASE route \in {"/coinlist/", "/tickerlist/"} -> [e |-> Exchange(request)]
      [] route \in {"/ticker/", "/analyze/"} ->
            [e |-> Exchange(request),
             market_pair |-> upper(strip(ArgOrEmpty(request, "market_pair")))]
      [] OTHER -> <<>>

\* C18: the relay sends the upstream key by one transport.  In query mode the
\* outgoing parameters are the caller's with the key added under the
\* configured name, and no Authorization header goes out; in bearer mode the
\* Authorization header is "Bearer " and the key, and the outgoing parameters
\* are the caller's; either way the caller's dict is after the call what it
\* was before.
C18_OneTransport ==
    \A i \in CallsTo("upstream") :
        LET call == last.calls[i]
            P == CallerParams(last.route, last.request)
        IN  /\ call.caller = P
            /\ IF lower(UP_AUTH) = Str_bearer
               THEN /\ call.headers = [Authorization |-> Bearer \o UP_KEY]
                    /\ call.params = P
                    /\ UP_KEYNAM \notin DOMAIN call.params
               ELSE /\ "Authorization" \notin DOMAIN call.headers
                    /\ DOMAIN call.params = DOMAIN P \cup {UP_KEYNAM}
                    /\ call.params[UP_KEYNAM] = UP_KEY
                    /\ \A k \in DOMAIN P : call.params[k] = P[k]

\* /ticker/ called the upstream in query mode with e, market_pair and the
\* key.
C18_Witness ==
    /\ last.route = "/ticker/"
    /\ UP_AUTH = Str_query
    /\ Len(last.calls) = 1
    /\ DOMAIN last.calls[1].params = {"e", "market_pair", "api_key"}
    /\ last.calls[1].params["api_key"] = UpSecret
    /\ last.calls[1].caller = [e |-> <<"b">>, market_pair |-> <<"X">>]

\* C19: a cache hit changes nothing in the cache.  In every step, an entry
\* that is no longer what it was has either been written by a cache_put for
\* its key, which stamps it with the time of the write, or been removed by a
\* cache_get for its key that found it more than TTL seconds old; a cache_get
\* that returns a value leaves every entry, its timestamp included, as it
\* was, so that the value returned was written at most TTL seconds before.
C19_HitLeavesCache ==
    [][/\ \A k \in DOMAIN _cache \cup DOMAIN _cache' :
            EntryOf(_cache', k) # EntryOf(_cache, k)
            => \/ /\ last'.route = "cache_put"
                  /\ last'.key = k
                  /\ EntryOf(_cache', k) = <<now, last'.value>>
               \/ /\ last'.route = "cache_get"
                  /\ last'.key = k
                  /\ last'.value = NoneValue
                  /\ EntryOf(_cache', k) = <<>>
                  /\ now - _cache[k][1] > CACHE_TTL_SECONDS
       /\ (last'.route = "cache_get" /\ last'.value # NoneValue)
            => /\ _cache' = _cache
               /\ last'.entry = EntryOf(_cache, last'.key)
               /\ last'.value = last'.entry[2]
               /\ last'.at - last'.entry[1] <= CACHE_TTL_SECONDS]_vars

\* An entry is read when it is exactly TTL seconds old, and is still in the
\* cache, beside the other key's entry, with the timestamp of its cache_put.
C19_Witness ==
    /\ last.route = "cache_get"
    /\ last.value # NoneValue
    /\ last.at - last.entry[1] = CACHE_TTL_SECONDS
    /\ last.at = now
    /\ EntryOf(_cache, last.key) = last.entry
    /\ Cardinality(DOMAIN _cache) = 2

\* The request served by this step was refused by the key check or the
\* parameter check
RejectedBeforeRelay ==
    \/ last'.status \in {400, 401}
    \/ last'.status = 500 /\ last'.body = Failure("server_missing_api_key_env")

\* C20: a request refused by the key check (401, 500) or the parameter check
\* (400), on any route, leaves the cache as it was and calls nothing; a
\* request on /, /info/, /ticker/, /tickerlist/, /limits/ or /analyze/ leaves
\* the cache as it was whatever its outcome; the cache changes only in the
\* service of a /coinlist/ request.
C20_OnlyCoinlistChangesCache ==
    [][/\ (RequestStep /\ RejectedBeforeRelay)
            => (_cache' = _cache /\ last'.calls = <<>>)
       /\ (RequestStep /\ last'.route # "/coinlist/") => _cache' = _cache
       /\ _cache' # _cache => (RequestStep /\ last'.route = "/coinlist/")]_vars

\* /analyze/ was refused for a wrong key while the cache held an entry, and
\* the entry is still there.
C20_Witness ==
    /\ last.route = "/analyze/"
    /\ last.status = 401
    /\ Candidate(last.request) = Wrong
    /\ last.calls = <<>>
    /\ DOMAIN _cache # {}

====
